---- MODULE Spec2Model ----
(***************************************************************************)
(* MinMaxNormalizer (tensortrade/features/scalers/min_max_normalizer.py).  *)
(*                                                                         *)
(* The transformer object holds columns, _feature_min, _feature_max and    *)
(* _inplace.  A caller invokes transform(X, input_space) or                *)
(* transform_space(input_space, column_names) and then takes the result.   *)
(* Numbers are exact rationals <<numerator, denominator>>; tables are      *)
(* ordered lists of named columns; space descriptors live in an object     *)
(* store so that copy() and np.append keep their aliasing behaviour.       *)
(***************************************************************************)
EXTENDS Integers, Sequences, FiniteSets, TLC

VARIABLES
    columns,        \* self.columns: [set |-> FALSE] is None, else the name list
    feature_min,    \* self._feature_min
    feature_max,    \* self._feature_max
    inplace,        \* self._inplace
    pc,             \* "idle": no call in progress; "returned": a call has ended
    op,             \* the operation of the last call
    X,              \* the table argument of the last transform call
    first,          \* the table the caller started from when it re-applies transform
    in_space,       \* the value of input_space when the call started
    objs,           \* object store: space descriptors, fields low/high are array ids
    arrs,           \* array store: the numpy arrays the descriptors refer to
    pre,            \* self.columns when the call started
    lazy,           \* whether self.columns was filled in by a transform call
    ret             \* what the call handed back to the caller

vars == <<columns, feature_min, feature_max, inplace, pc, op, X, first,
          in_space, objs, arrs, pre, lazy, ret>>

----------------------------------------------------------------------------
(* Bounds of the model and the input sets the caller draws from.           *)

\* Rows of a table.
MaxRows == 2

\* Length of a configured column list, columns of a table, declared dimensions.
MaxCols == 2

\* Column names; the second is what '{}_minmax_{}_{}' gives for "a", 0, 1.
Names == {"a", "a_minmax_0_1"}

\* First cell of a table.
RowStarts == {0, 1}

\* (low, high) of one dimension: a proper range and a degenerate one.
BoundPairs == {<<1, 3>>, <<2, 2>>}

\* (feature_min, feature_max): the defaults and two other ranges.
FeatureRanges == {<<0, 1>>, <<1, 2>>, <<-1, 1>>}

\* What follows the first element of input_space.shape.
ShapeTails == {<<>>, <<1>>}

SeqsUpTo(S, n) == UNION {[1..k -> S] : k \in 0..n}

Distinct(s) == \A i, j \in 1..Len(s) : i # j => s[i] # s[j]

----------------------------------------------------------------------------
(* Exact arithmetic on rationals.                                          *)

Abs(n) == IF n < 0 THEN -n ELSE n

RECURSIVE GCD(_, _)
GCD(a, b) == IF b = 0 THEN a ELSE GCD(b, a % b)

Rat(n, d) ==
    LET g == GCD(Abs(n), Abs(d))
        s == IF d < 0 THEN -1 ELSE 1
    IN  <<(s * n) \div g, (s * d) \div g>>

RatInt(k) == <<k, 1>>

RatSubInt(r, k) == Rat(r[1] - k * r[2], r[2])

RatDivInt(r, k) == Rat(r[1], r[2] * k)

RatMulInt(r, k) == Rat(r[1] * k, r[2])

RatLeq(r, q) == r[1] * q[2] <= q[1] * r[2]

----------------------------------------------------------------------------
(* Tables: sequences of [name, vals], names pairwise distinct.             *)

ColumnNames(T) == [i \in 1..Len(T) |-> T[i].name]

HasColumn(T, name) == \E i \in 1..Len(T) : T[i].name = name

Col(T, name) == T[CHOOSE i \in 1..Len(T) : T[i].name = name].vals

RowCount(T) == IF Len(T) = 0 THEN 0 ELSE Len(T[1].vals)

\* DataFrame.assign(**{name: vals}): a new table; an existing column of that
\* name is replaced where it stands, otherwise the column is added last.
Assign(T, name, vals) ==
    IF HasColumn(T, name)
    THEN [i \in 1..Len(T) |->
            IF T[i].name = name THEN [name |-> name, vals |-> vals] ELSE T[i]]
    ELSE Append(T, [name |-> name, vals |-> vals])

----------------------------------------------------------------------------
(* transform                                                               *)

NoColumns == [set |-> FALSE, names |-> <<>>]

SomeColumns(names) == [set |-> TRUE, names |-> names]

NoTable == [set |-> FALSE, table |-> <<>>]

\* Variant: the column list is taken from the table on every call.
ResolveEveryCall(cols, T) == SomeColumns(ColumnNames(T))

\* if self.columns is None: self.columns = list(X.columns)
ResolveColumns(cols, T) ==
    IF ~cols.set THEN SomeColumns(ColumnNames(T)) ELSE cols

\* Variant: the width of the target range alone.
ScaleSpan == feature_max - feature_min

\* scale = (self._feature_max - self._feature_min) + self._feature_min
Scale == (feature_max - feature_min) + feature_min

\* (X[column] - low) / (high - low) * scale, for one row
Normalize(v, low, high) ==
    RatMulInt(RatDivInt(RatSubInt(v, low), high - low), Scale)

\* Variant: the midpoint of the target range, whatever the row count.
DegenerateMidpoint(n) == Rat(feature_min + feature_max, 2)

\* (1/len(X[column])) * scale
DegenerateValue(n) == RatMulInt(Rat(1, n), Scale)

\* Variant: a column whose values already lie within [0, scale] is taken to
\* be rescaled already and is left as it is.
NormalizedColumnOnce(vals, low, high) ==
    IF /\ Len(vals) > 0
       /\ \A r \in 1..Len(vals) :
              RatLeq(RatInt(0), vals[r]) /\ RatLeq(vals[r], RatInt(Scale))
    THEN vals
    ELSE IF high - low = 0
    THEN [r \in 1..Len(vals) |-> DegenerateValue(Len(vals))]
    ELSE [r \in 1..Len(vals) |-> Normalize(vals[r], low, high)]

\* The value of normalized_column as assign() lays it out: the scalar of the
\* degenerate branch is broadcast to every row.
NormalizedColumn(vals, low, high) ==
    IF high - low = 0
    THEN [r \in 1..Len(vals) |-> DegenerateValue(Len(vals))]
    ELSE [r \in 1..Len(vals) |-> Normalize(vals[r], low, high)]

\* '{}_minmax_{}_{}'.format(column, self._feature_min, self._feature_max)
SynthName(column) ==
    column \o "_minmax_" \o ToString(feature_min) \o "_" \o ToString(feature_max)

DestName(column) == IF inplace THEN column ELSE SynthName(column)

\* An exception leaves transform: the caller gets no table.
Failure(kind) == [status |-> kind, table |-> <<>>, steps |-> <<>>, ref |-> 0]

\* input_space.low[idx], input_space.high[idx] with idx counted from 1
BoundsInRange(sp, idx) == idx <= Len(sp.low) /\ idx <= Len(sp.high)

\* The loop over enumerate(self.columns), from position idx on, with T the
\* table bound to X so far.  steps records, per finished iteration, the
\* column read and the column written.
RECURSIVE TransformLoop(_, _, _, _, _)
TransformLoop(cols, idx, T, sp, steps) ==
    IF idx > Len(cols) THEN [status |-> "ok", table |-> T, steps |-> steps, ref |-> 0]
    ELSE IF ~BoundsInRange(sp, idx) THEN Failure("IndexError")
    ELSE IF ~HasColumn(T, cols[idx]) THEN Failure("KeyError")
    ELSE LET column == cols[idx]
             low    == sp.low[idx]
             high   == sp.high[idx]
             vals   == Col(T, column)
         IN  IF high - low = 0 /\ Len(vals) = 0 THEN Failure("ZeroDivisionError")
             ELSE LET normalized == NormalizedColumn(vals, low, high)
                      dest       == DestName(column)
                  IN  TransformLoop(cols, idx + 1, Assign(T, dest, normalized), sp,
                                    Append(steps, [column |-> column, dest |-> dest,
                                                   read |-> vals, written |-> normalized]))

TransformBody(cols, T, sp) == TransformLoop(cols.names, 1, T, sp, <<>>)

----------------------------------------------------------------------------
(* transform_space                                                         *)

\* copy(input_space): a new object whose fields hold what the fields of the
\* original hold (the same shape tuple, the same two arrays).
Copy(os, ref) == Append(os, os[ref])

\* Variant: the value is appended to the array itself.
NpAppendInPlace(as, a, v) == [arrs |-> [as EXCEPT ![a] = Append(@, v)], id |-> a]

\* np.append(arr, value): a new array; arr itself is left as it is.
NpAppend(as, a, v) == [arrs |-> Append(as, Append(as[a], v)), id |-> Len(as) + 1]

\* for _ in columns: output_space.low = np.append(output_space.low, min)
\*                   output_space.high = np.append(output_space.high, max)
RECURSIVE AppendLoop(_, _, _)
AppendLoop(n, h, out) ==
    IF n = 0 THEN h
    ELSE LET lo == NpAppend(h.arrs, h.objs[out].low, feature_min)
             o1 == [h.objs EXCEPT ![out].low = lo.id]
             hi == NpAppend(lo.arrs, o1[out].high, feature_max)
             o2 == [o1 EXCEPT ![out].high = hi.id]
         IN  AppendLoop(n - 1, [objs |-> o2, arrs |-> hi.arrs], out)

\* The truth value Python gives self.columns: None and [] are both false.
Truthy(cols) == cols.set /\ Len(cols.names) > 0

\* columns = self.columns or range(len(shape_x)): shape_x is an int, so the
\* right operand raises TypeError whenever it is evaluated.
ColumnCount(cols, shape_x) ==
    IF Truthy(cols) THEN [ok |-> TRUE, n |-> Len(cols.names)]
    ELSE [ok |-> FALSE, n |-> 0]

SpaceResult(status, ref, h) == [status |-> status, ref |-> ref, heap |-> h]

\* The body of transform_space on the descriptor object `ref` of heap h.
TransformSpaceBody(h, ref) ==
    IF inplace THEN SpaceResult("ok", ref, h)
    ELSE LET h1      == [objs |-> Copy(h.objs, ref), arrs |-> h.arrs]
             out     == Len(h1.objs)
             shape_x == Head(h.objs[ref].shape)
             shape_y == Tail(h.objs[ref].shape)
             count   == ColumnCount(columns, shape_x)
         IN  IF ~count.ok THEN SpaceResult("TypeError", 0, h1)
             ELSE LET h2 == [h1 EXCEPT
                                !.objs[out].shape = <<shape_x + count.n>> \o shape_y]
                  IN  SpaceResult("ok", out, AppendLoop(count.n, h2, out))

----------------------------------------------------------------------------
(* The caller's inputs.                                                    *)

\* Column i of a table holds the rows start + i - 1, start + i, ...: rows
\* differ within a column and columns differ within a table.
MakeTable(names, start, rows) ==
    [i \in 1..Len(names) |->
        [name |-> names[i],
         vals |-> [r \in 1..rows |-> RatInt(start + (i - 1) + (r - 1))]]]

Tables ==
    {MakeTable(names, start, rows) :
        names \in {s \in SeqsUpTo(Names, MaxCols) : Distinct(s)},
        start \in RowStarts, rows \in 0..MaxRows}

\* Declared bounds, one (low, high) pair per dimension; the descriptor may
\* also come with its low or its high one entry short.
Front(s) == SubSeq(s, 1, Len(s) - 1)

BoundSeqs ==
    LET aligned == {<<[i \in 1..Len(ps) |-> ps[i][1]], [i \in 1..Len(ps) |-> ps[i][2]]>> :
                        ps \in SeqsUpTo(BoundPairs, MaxCols)}
        ragged  == UNION {{<<Front(b[1]), b[2]>>, <<b[1], Front(b[2])>>} :
                        b \in {c \in aligned : Len(c[1]) > 0}}
    IN  aligned \cup ragged

TransformSpaces ==
    {[shape |-> <<Len(b[1])>>, low |-> b[1], high |-> b[2]] : b \in BoundSeqs}

SpaceInputs ==
    {[shape |-> <<sx>> \o tail, low |-> b[1], high |-> b[2]] :
        b \in BoundSeqs, sx \in 0..MaxCols, tail \in ShapeTails}

ColumnConfigs == {NoColumns} \cup {SomeColumns(s) : s \in SeqsUpTo(Names, MaxCols)}

----------------------------------------------------------------------------
(* State machine.                                                          *)

NoSpace == [shape |-> <<>>, low |-> <<>>, high |-> <<>>]

NoResult == [status |-> "none", table |-> <<>>, steps |-> <<>>, ref |-> 0]

\* __init__
Init ==
    /\ columns \in ColumnConfigs
    /\ \E fr \in FeatureRanges : feature_min = fr[1] /\ feature_max = fr[2]
    /\ inplace \in BOOLEAN
    /\ pc = "idle"
    /\ op = "none"
    /\ X = <<>>
    /\ first = NoTable
    /\ in_space = NoSpace
    /\ objs = <<>>
    /\ arrs = <<>>
    /\ pre = NoColumns
    /\ lazy = FALSE
    /\ ret = NoResult

\* The caller builds a descriptor object and its two bound arrays.
CallerSpace(sp) ==
    /\ objs' = <<[shape |-> sp.shape, low |-> 1, high |-> 2]>>
    /\ arrs' = <<sp.low, sp.high>>
    /\ in_space' = sp

\* transform(X, input_space)
Transform(T, sp) ==
    /\ pc = "idle"
    /\ columns' = ResolveColumns(columns, T)
    /\ ret' = TransformBody(ResolveColumns(columns, T), T, sp)
    /\ pre' = columns
    /\ lazy' = (lazy \/ ~columns.set)
    /\ X' = T
    /\ first' = NoTable
    /\ CallerSpace(sp)
    /\ pc' = "returned"
    /\ op' = "transform"
    /\ UNCHANGED <<feature_min, feature_max, inplace>>

\* transform_space(input_space, column_names); column_names is not read.
TransformSpace(sp) ==
    /\ pc = "idle"
    /\ LET h0 == [objs |-> <<[shape |-> sp.shape, low |-> 1, high |-> 2]>>,
                  arrs |-> <<sp.low, sp.high>>]
           r  == TransformSpaceBody(h0, 1)
       IN  /\ objs' = r.heap.objs
           /\ arrs' = r.heap.arrs
           /\ ret' = [status |-> r.status, table |-> <<>>, steps |-> <<>>, ref |-> r.ref]
    /\ in_space' = sp
    /\ pre' = columns
    /\ X' = <<>>
    /\ first' = NoTable
    /\ pc' = "returned"
    /\ op' = "transform_space"
    /\ UNCHANGED <<columns, feature_min, feature_max, inplace, lazy>>

\* transform(transform(X, input_space), input_space): the caller feeds the
\* table it got back into transform again, with the same descriptor.
TransformAgain ==
    /\ pc = "returned"
    /\ op = "transform"
    /\ ret.status = "ok"
    /\ ~first.set
    /\ columns' = ResolveColumns(columns, ret.table)
    /\ ret' = TransformBody(ResolveColumns(columns, ret.table), ret.table, in_space)
    /\ pre' = columns
    /\ X' = ret.table
    /\ first' = [set |-> TRUE, table |-> X]
    /\ lazy' = (lazy \/ ~columns.set)
    /\ UNCHANGED <<feature_min, feature_max, inplace, pc, op, in_space, objs, arrs>>

\* The caller lets go of the arguments and the result.
Return ==
    /\ pc = "returned"
    /\ pc' = "idle"
    /\ op' = "none"
    /\ X' = <<>>
    /\ first' = NoTable
    /\ in_space' = NoSpace
    /\ objs' = <<>>
    /\ arrs' = <<>>
    /\ pre' = NoColumns
    /\ ret' = NoResult
    /\ UNCHANGED <<columns, feature_min, feature_max, inplace, lazy>>

Next ==
    \/ \E T \in Tables, sp \in TransformSpaces : Transform(T, sp)
    \/ \E sp \in SpaceInputs : TransformSpace(sp)
    \/ TransformAgain
    \/ Return

Spec == Init /\ [][Next]_vars

----------------------------------------------------------------------------
(* Vocabulary of the properties.                                           *)

TransformReturned == pc = "returned" /\ op = "transform"

SpaceReturned == pc = "returned" /\ op = "transform_space"

Tracked == columns.names

\* (value - low) / (high - low) * feature_max
ExpectedRescaled(v, low, high) ==
    Rat((v[1] - low * v[2]) * feature_max, v[2] * (high - low))

\* feature_max / row_count
ExpectedDegenerate(n) == Rat(feature_max, n)

\* Iteration i read a column that an earlier iteration had written.
WrittenEarlier(i) == \E j \in 1..(i - 1) : ret.steps[j].dest = ret.steps[i].column

\* A later iteration wrote the destination column of iteration i again.
WrittenLater(i) ==
    \E j \in (i + 1)..Len(ret.steps) : ret.steps[j].dest = ret.steps[i].dest

TablePosition(T, name) == CHOOSE k \in 1..Len(T) : T[k].name = name

Repeat(v, n) == [k \in 1..n |-> v]

----------------------------------------------------------------------------
C3_WithinFeatureRange ==
    TransformReturned /\ ret.status = "ok" /\ feature_min <= feature_max =>
        \A i \in 1..Len(ret.steps) :
            LET st   == ret.steps[i]
                low  == in_space.low[i]
                high == in_space.high[i]
            IN  high > low /\ ~WrittenEarlier(i) =>
                  \A r \in 1..Len(st.read) :
                      RatLeq(RatInt(low), st.read[r]) /\ RatLeq(st.read[r], RatInt(high))
                          => /\ RatLeq(RatInt(feature_min), st.written[r])
                             /\ RatLeq(st.written[r], RatInt(feature_max))

\* The descriptor object transform_space handed back, as a value.
Returned == [shape |-> objs[ret.ref].shape,
             low   |-> arrs[objs[ret.ref].low],
             high  |-> arrs[objs[ret.ref].high]]

\* C4: with inplace=False and a configured ColumnSet of n >= 0 tracked
\* columns (the empty list included), transform_space returns a descriptor
\* with shape[0] raised by n and the rest of the shape as it was, low
\* followed by n copies of feature_min and high by n copies of feature_max.
C4_AppendModeSpace ==
    SpaceReturned /\ ~inplace /\ pre.set =>
        LET n == Len(pre.names)
        IN  /\ ret.status = "ok"
            /\ Returned.shape = <<Head(in_space.shape) + n>> \o Tail(in_space.shape)
            /\ Returned.low = in_space.low \o Repeat(feature_min, n)
            /\ Returned.high = in_space.high \o Repeat(feature_max, n)
            /\ (Len(in_space.low) = Head(in_space.shape)
                /\ Len(in_space.high) = Head(in_space.shape)
                    => /\ Len(Returned.low) = Head(Returned.shape)
                       /\ Len(Returned.high) = Head(Returned.shape))

\* C5: with inplace=False, the table transform returns holds, for every
\* tracked column c, a column "<c>_minmax_<feature_min>_<feature_max>" with
\* the rescaled values of c, the column c with the values it has in X, and
\* every other column of X with the values it has in X, also when a
\* synthesized name is the name of a column of X.
C5_AppendModeFrame ==
    TransformReturned /\ ret.status = "ok" /\ ~inplace =>
        /\ \A i \in 1..Len(Tracked) :
            LET c    == Tracked[i]
                name == c \o "_minmax_" \o ToString(feature_min)
                          \o "_" \o ToString(feature_max)
            IN  /\ HasColumn(ret.table, name)
                /\ \E j \in 1..Len(Tracked) :
                      /\ Tracked[j] = c
                      /\ Col(ret.table, name) =
                            IF in_space.high[j] = in_space.low[j]
                            THEN Repeat(ExpectedDegenerate(RowCount(X)), RowCount(X))
                            ELSE [r \in 1..RowCount(X) |->
                                    ExpectedRescaled(Col(X, c)[r], in_space.low[j],
                                                     in_space.high[j])]
                /\ HasColumn(ret.table, c)
                /\ Col(ret.table, c) = Col(X, c)
        /\ \A k \in 1..Len(X) :
                /\ HasColumn(ret.table, X[k].name)
                /\ (\A i \in 1..Len(Tracked) : Tracked[i] # X[k].name)
                      => Col(ret.table, X[k].name) = X[k].vals

\* A tracked column of the table the call was given is missing from it.
MissingTracked(T) == \E i \in 1..Len(Tracked) : ~HasColumn(T, Tracked[i])

ResolvedOnce ==
    /\ pc = "returned" /\ pre.set => columns = pre
    /\ TransformReturned /\ ~pre.set => columns = SomeColumns(ColumnNames(X))
    /\ SpaceReturned => columns = pre

C7_InputSpaceUntouched ==
    SpaceReturned =>
        /\ objs[1].shape = in_space.shape
        /\ arrs[objs[1].low] = in_space.low
        /\ arrs[objs[1].high] = in_space.high
        /\ inplace => ret.status = "ok" /\ ret.ref = 1
        /\ ~inplace /\ ret.status = "ok" => ret.ref # 1 /\ Returned # in_space

C7_Witness ==
    /\ SpaceReturned /\ ~inplace /\ ret.status = "ok"
    /\ Len(in_space.low) >= 1
    /\ Len(Returned.low) > Len(in_space.low)
    /\ Returned.shape # in_space.shape

\* C8: a transform call in which a tracked column is absent from X, or a
\* tracked column's index is out of range of input_space.low or
\* input_space.high, ends in a failure and returns no table.
C8_LookupFailurePropagates ==
    TransformReturned
    /\ (\/ MissingTracked(X)
        \/ \E i \in 1..Len(Tracked) : i > Len(in_space.low) \/ i > Len(in_space.high))
        => ret.status # "ok" /\ ret.table = <<>>

\* C9: with inplace=True, transform applied to its own output with the same
\* input_space rescales the rescaled values again: each tracked column
\* (tracked once) of the second result is the formula applied twice to the
\* column of the table the caller started from.
C9_ReapplicationRescalesAgain ==
    TransformReturned /\ first.set /\ inplace /\ ret.status = "ok"
    /\ Distinct(Tracked) =>
        \A i \in 1..Len(Tracked) :
            LET c    == Tracked[i]
                low  == in_space.low[i]
                high == in_space.high[i]
                n    == RowCount(first.table)
            IN  Col(ret.table, c) =
                    IF high = low THEN Repeat(ExpectedDegenerate(n), n)
                    ELSE [r \in 1..n |->
                            ExpectedRescaled(
                                ExpectedRescaled(Col(first.table, c)[r], low, high),
                                low, high)]

\* Scenario A applied twice: the second result differs from the first.
C9_Witness ==
    /\ TransformReturned /\ first.set /\ inplace /\ ret.status = "ok"
    /\ feature_min = 0 /\ feature_max = 1
    /\ Len(Tracked) = 1
    /\ in_space.high[1] # in_space.low[1]
    /\ RowCount(first.table) >= 2
    /\ ret.table # X

\* C10: with inplace=False and ColumnSet unset, transform_space returns a
\* copy of input_space extended by k = shape[0] dimensions and leaves
\* ColumnSet unset.
C10_FallbackColumnCount ==
    SpaceReturned /\ ~inplace /\ ~pre.set =>
        LET k == Head(in_space.shape)
        IN  /\ ret.status = "ok"
            /\ Returned.shape = <<Head(in_space.shape) + k>> \o Tail(in_space.shape)
            /\ Returned.low = in_space.low \o Repeat(feature_min, k)
            /\ Returned.high = in_space.high \o Repeat(feature_max, k)
            /\ ~columns.set

====
